---- MODULE Spec2Model ----
(***************************************************************************)
(* TopHolders.main of src/main.py: for every entry of contracts_info the   *)
(* Deposit logs of the last n_blocks blocks are fetched in chunks walking  *)
(* down from end_block, the chunk being halved whenever a request raises;  *)
(* the depositors found are then joined with userInfo, filtered, ranked    *)
(* and written as a csv report.                                            *)
(***************************************************************************)
EXTENDS Integers, Sequences, FiniteSets, TLC

\* ------------------------------------------------------------------ bounds
MaxN == 5            \* largest explicit n_blocks / chunk_size of a small config
EndBlock == 10       \* end_block of the small configs
MaxFail == 4         \* raised requests per scan under the arbitrary provider
MaxEvents == 2       \* Deposit entries the chain holds (log-carrying runs)
MaxLogN == 3         \* largest n_blocks / chunk_size of a log-carrying run
MaxHolders == 3      \* Deposit entries the chain holds (ranking runs)
MaxStake == 2        \* largest staked amount userInfo returns
MaxContracts == 2    \* longest contracts_info list
MaxW == 2
MaxMant == 3500      \* millify alone: the arguments are m * 1000^e, m up to MaxMant
MaxExp == 4          \*   and e up to MaxExp            \* largest width threshold of the width-limited provider

\* ------------------------------------------------------- program constants
CHUNK_SIZE == 4999
N_BLOCKS == CHUNK_SIZE

Max(a, b) == IF a >= b THEN a ELSE b
Min(a, b) == IF a <= b THEN a ELSE b

Users == {"a", "b", "c"}
Amounts == {1, 2}    \* the deposit amounts: the scan stores them and never reads them

VARIABLES
    contracts_info,  \* the list get_contracts_info() returns
    i,               \* index of the for loop (1-based)
    pc,              \* "loop" | "scan" | "post" | "done" | "fatal"
    error,           \* the exception that ended the run, "" while there is none
    to_block, from_block, first_block, chunk_size,
    all_deposits,    \* insertion-ordered dict: sequence of [user, amount]
    chunks,          \* history: the successful requests of the current scan
    last,            \* history: the latest request of the current scan
    nfail,           \* history: requests of the current scan that raised (counted
                     \* up to MaxFail)
    requested,       \* history: indexes of the entries a log request was made for
    queried,         \* history: indexes of the entries a state query was made for
    reports,         \* what csv_writer was handed: sequence of [idx, rows], with
                     \* history: the record and the userInfo amounts behind it
    pending,         \* chain: Deposit entries no request has returned yet
    holders,         \* chain: the addresses those entries are of
    W,               \* provider: 0 = any request may raise, else raises iff width > W
    arg,             \* millify alone: the argument n as [m, e], n = m * 1000^e
    formatted        \* millify alone: what the call returned, NoText before it

vars == <<contracts_info, i, pc, error, to_block, from_block, first_block,
          chunk_size, all_deposits, chunks, last, nfail, requested, queried,
          reports, pending, holders, W, arg, formatted>>

millVars == <<arg, formatted>>

progVars == <<to_block, from_block, first_block, chunk_size, all_deposits>>

scanVars == <<to_block, from_block, first_block, chunk_size, all_deposits,
              chunks, last, nfail>>

\* ---------------------------------------------------------- configuration
\* dict.get(key) or default: an absent key and a falsy (0) value both default
GetOr(ci, key, default) ==
    IF key \in DOMAIN ci /\ ci[key] # 0 THEN ci[key] ELSE default

chunk_size_of(ci) == GetOr(ci, "chunk_size", CHUNK_SIZE)
n_blocks_of(ci) == GetOr(ci, "n_blocks", N_BLOCKS)
\* every modelled entry carries its end_block (line 123 reads the chain's
\* blockNumber otherwise, once, before the scan)
end_block_of(ci) == ci.end_block

contract_info == contracts_info[i]

\* The small entries: every explicit n_blocks / chunk_size up to MaxN, where 0
\* stands for a value of 0 in the file.  An n_blocks of 0 is paired with a
\* chunk_size of 0 only (both then default to 4999).
SmallConfigs ==
    { ci \in [enabled : BOOLEAN, n_blocks : 0..MaxN, chunk_size : 0..MaxN,
               end_block : {EndBlock}, ref_token : {0}] :
        ci.n_blocks = 0 => ci.chunk_size = 0 }

\* An entry without the optional keys n_blocks and chunk_size
DefaultConfig == [enabled |-> TRUE, end_block |-> EndBlock, ref_token |-> 0]

\* window_size = 10000, chunk_size = 5000, end_block = 1,000,000
ScenarioConfig ==
    [enabled |-> TRUE, n_blocks |-> 10000, chunk_size |-> 5000,
     end_block |-> 1000000, ref_token |-> 0]

\* The values of the key ref_token: the two slots, the negative indices of a
\* list of three, and one value on either side of them
RefTokens == -4..2

\* Entries of a window of one block, one for every ref_token
RefConfigs ==
    [enabled : {TRUE}, n_blocks : {1}, chunk_size : {1}, end_block : {EndBlock},
     ref_token : RefTokens]

Configs == SmallConfigs \cup {DefaultConfig, ScenarioConfig} \cup RefConfigs

\* Entries of the lists of more than one contract
MultiConfigs == { c \in SmallConfigs : c.n_blocks \in 1..2 /\ c.chunk_size = 1 }

RECURSIVE ListsOf(_, _)
ListsOf(S, n) ==
    IF n = 0 THEN {<<>>}
    ELSE { Append(l, c) : l \in ListsOf(S, n - 1), c \in S }

ContractLists ==
    ListsOf(Configs, 1) \cup UNION { ListsOf(MultiConfigs, n) : n \in 2..MaxContracts }

\* The lists of the runs under the width-limited provider
WidthLists == ContractLists \ {<<ScenarioConfig>>}

\* The lists of the runs whose chain holds Deposit entries
LogConfigs ==
    { ci \in SmallConfigs : ci.n_blocks \in 1..MaxLogN /\ ci.chunk_size \in 1..MaxLogN }

\* one contract, or two contracts of a window of one block each
LogLists ==
    ListsOf(LogConfigs, 1) \cup ListsOf({ ci \in MultiConfigs : ci.n_blocks = 1 }, 2)

\* The lists of the runs that rank many holders: a window of one chunk
RankConfigs == { ci \in SmallConfigs : ci.n_blocks = 1 /\ ci.chunk_size \in 1..2 }

RankLists == ListsOf(RankConfigs, 1)

\* ------------------------------------------------------------ the log scan
Entries == [user : holders, amount : Amounts]

\* What get_all_entries() may return: up to k entries, in log order
EntrySeqs(k) == UNION { [1..n -> Entries] : n \in 0..k }

Keys(deposits) == { deposits[k].user : k \in 1..Len(deposits) }

\* (a variant of Insert in which a later entry replaces the recorded amount)
InsertOverwrite(deposits, entry) ==
    IF entry.user \in Keys(deposits)
    THEN [k \in 1..Len(deposits) |->
            IF deposits[k].user = entry.user THEN entry ELSE deposits[k]]
    ELSE Append(deposits, entry)

\* if entry['args']['user'] not in all_deposits.keys(): all_deposits[user] = amount
Insert(deposits, entry) ==
    IF entry.user \in Keys(deposits) THEN deposits ELSE Append(deposits, entry)

\* the for loop over the entries of one chunk
RECURSIVE InsertAll(_, _)
InsertAll(deposits, entries) ==
    IF entries = <<>> THEN deposits
    ELSE InsertAll(Insert(deposits, Head(entries)), Tail(entries))

\* (a variant of Halve that leaves the chunk as it is)
HalveStuck(cs) == cs

\* (a variant of Halve without the floor of 1)
HalveToZero(cs) == cs \div 2

\* chunk_size = max(chunk_size // 2, 1)
Halve(cs) == Max(cs \div 2, 1)

NoRequest == [from |-> 0, to |-> 0, cs |-> 0, result |-> "none", err |-> ""]

\* for i in range(len(contracts_info)) has run out: main returns
Return ==
    /\ pc = "loop"
    /\ i > Len(contracts_info)
    /\ pc' = "done"
    /\ UNCHANGED <<contracts_info, i, error, scanVars, requested, queried, reports,
                   pending, holders, W, millVars>>

\* (a variant of Skip without the continue: the disabled entry is scanned)
SkipNoContinue ==
    /\ pc = "loop"
    /\ i <= Len(contracts_info)
    /\ ~contract_info.enabled
    /\ to_block' = end_block_of(contract_info)
    /\ first_block' = to_block' - n_blocks_of(contract_info)
    /\ from_block' = to_block' - chunk_size_of(contract_info)
    /\ all_deposits' = <<>>
    /\ chunk_size' = chunk_size_of(contract_info)
    /\ pc' = "scan"
    /\ UNCHANGED <<contracts_info, i, error, chunks, last, nfail, requested, queried,
                   reports, pending, holders, W, millVars>>

\* lines 131-138: a disabled entry is skipped
Skip ==
    /\ pc = "loop"
    /\ i <= Len(contracts_info)
    /\ ~contract_info.enabled
    /\ i' = i + 1
    /\ UNCHANGED <<contracts_info, pc, error, scanVars, requested, queried, reports,
                   pending, holders, W, millVars>>

\* (a variant of StartScan that keeps the record of the contract before)
StartScanKeepRecord ==
    /\ pc = "loop"
    /\ i <= Len(contracts_info)
    /\ contract_info.enabled
    /\ n_blocks_of(contract_info) >= chunk_size_of(contract_info)
    /\ to_block' = end_block_of(contract_info)
    /\ first_block' = to_block' - n_blocks_of(contract_info)
    /\ from_block' = to_block' - chunk_size_of(contract_info)
    /\ chunk_size' = chunk_size_of(contract_info)
    /\ chunks' = <<>>
    /\ last' = NoRequest
    /\ nfail' = 0
    /\ pc' = "scan"
    /\ UNCHANGED <<contracts_info, i, error, all_deposits, requested, queried, reports,
                   pending, holders, W, millVars>>

\* lines 140-148 with the assertion holding: the scan is set up
StartScan ==
    /\ pc = "loop"
    /\ i <= Len(contracts_info)
    /\ contract_info.enabled
    /\ n_blocks_of(contract_info) >= chunk_size_of(contract_info)
    /\ to_block' = end_block_of(contract_info)
    /\ first_block' = to_block' - n_blocks_of(contract_info)
    /\ from_block' = to_block' - chunk_size_of(contract_info)
    /\ all_deposits' = <<>>
    /\ chunk_size' = chunk_size_of(contract_info)
    /\ chunks' = <<>>
    /\ last' = NoRequest
    /\ nfail' = 0
    /\ pc' = "scan"
    /\ UNCHANGED <<contracts_info, i, error, requested, queried, reports, pending,
                   holders, W, millVars>>

\* (a variant of StartAssertFail without the assertion: the scan is set up)
StartUnchecked ==
    /\ pc = "loop"
    /\ i <= Len(contracts_info)
    /\ contract_info.enabled
    /\ n_blocks_of(contract_info) < chunk_size_of(contract_info)
    /\ to_block' = end_block_of(contract_info)
    /\ first_block' = to_block' - n_blocks_of(contract_info)
    /\ from_block' = to_block' - chunk_size_of(contract_info)
    /\ all_deposits' = <<>>
    /\ chunk_size' = chunk_size_of(contract_info)
    /\ chunks' = <<>>
    /\ last' = NoRequest
    /\ nfail' = 0
    /\ pc' = "scan"
    /\ UNCHANGED <<contracts_info, i, error, requested, queried, reports, pending,
                   holders, W, millVars>>

\* lines 140-145 with the assertion failing: AssertionError leaves main
StartAssertFail ==
    /\ pc = "loop"
    /\ i <= Len(contracts_info)
    /\ contract_info.enabled
    /\ n_blocks_of(contract_info) < chunk_size_of(contract_info)
    /\ to_block' = end_block_of(contract_info)
    /\ first_block' = to_block' - n_blocks_of(contract_info)
    /\ from_block' = to_block' - chunk_size_of(contract_info)
    /\ pc' = "fatal"
    /\ error' = "AssertionError: n_blocks"
    /\ UNCHANGED <<contracts_info, i, chunk_size, all_deposits, chunks, last, nfail,
                   requested, queried, reports, pending, holders, W, millVars>>

\* Whether get_all_entries() may return / raise on the request [from_block,
\* to_block].  Resolving self.contract, self.pid and createFilter (lines 160-161,
\* outside the try) is taken to succeed.
MayAnswer == W = 0 \/ to_block - from_block <= W
MayRaise == IF W = 0 THEN nfail < MaxFail ELSE to_block - from_block > W

\* (a variant of RequestOk whose next upper bound is the lower bound just
\* scanned instead of the block below it)
RequestOkInclusive ==
    /\ pc = "scan"
    /\ MayAnswer
    /\ \E entries \in EntrySeqs(pending) :
        /\ all_deposits' = InsertAll(all_deposits, entries)
        /\ pending' = pending - Len(entries)
        /\ chunks' = Append(chunks, [from |-> from_block, to |-> to_block,
                                     entries |-> entries])
    /\ last' = [from |-> from_block, to |-> to_block, cs |-> chunk_size,
                result |-> "ok", err |-> ""]
    /\ to_block' = from_block
    /\ from_block' = Max(first_block, from_block - chunk_size)
    /\ chunk_size' = chunk_size_of(contract_info)
    /\ pc' = IF from_block' <= first_block THEN "post" ELSE "scan"
    /\ requested' = requested \cup {i}
    /\ UNCHANGED <<contracts_info, i, error, first_block, nfail, queried, reports,
                   holders, W, millVars>>

\* lines 160-169, 181-188: the request is answered, its entries are merged and
\* the range advances; the loop is left when from_block reaches first_block
RequestOk ==
    /\ pc = "scan"
    /\ MayAnswer
    /\ \E entries \in EntrySeqs(pending) :
        /\ all_deposits' = InsertAll(all_deposits, entries)
        /\ pending' = pending - Len(entries)
        /\ chunks' = Append(chunks, [from |-> from_block, to |-> to_block,
                                     entries |-> entries])
    /\ last' = [from |-> from_block, to |-> to_block, cs |-> chunk_size,
                result |-> "ok", err |-> ""]
    /\ to_block' = from_block - 1
    /\ from_block' = Max(first_block, from_block - chunk_size)
    /\ chunk_size' = chunk_size_of(contract_info)
    /\ pc' = IF from_block' <= first_block THEN "post" ELSE "scan"
    /\ requested' = requested \cup {i}
    /\ UNCHANGED <<contracts_info, i, error, first_block, nfail, queried, reports,
                   holders, W, millVars>>

\* What get_all_entries() may raise: a provider-side failure (result set too
\* large, rate limit) or any other exception
Raised == IF W = 0 THEN {"provider", "other"} ELSE {"provider"}

\* lines 160-164, 171-179: the request raises, whatever the exception the chunk
\* is halved and the same upper bound is retried
RequestFail ==
    /\ pc = "scan"
    /\ MayRaise
    /\ \E e \in Raised :
        last' = [from |-> from_block, to |-> to_block, cs |-> chunk_size,
                 result |-> "fail", err |-> e]
    /\ chunk_size' = Halve(chunk_size)
    /\ from_block' = to_block - chunk_size'
    /\ nfail' = Min(nfail + 1, MaxFail)
    /\ requested' = requested \cup {i}
    /\ UNCHANGED <<contracts_info, i, pc, error, to_block, first_block, all_deposits,
                   chunks, queried, reports, pending, holders, W, millVars>>

\* --------------------------------------------------- enrichment and ranking
\* Rationals stand for the floats of the code: [num, den] with den > 0.  At the
\* magnitudes modelled the float quotients order and compare as the rationals do.
Rat(n, d) == [num |-> n, den |-> d]
RatLess(x, y) == x.num * y.den < y.num * x.den

\* seq[k] of a Python list: 0-based, negative k counting from the end
InRange(seq, k) == -Len(seq) <= k /\ k < Len(seq)
PyIndex(seq, k) == IF k >= 0 THEN seq[k + 1] ELSE seq[Len(seq) + k + 1]

Fail(e) == [ok |-> FALSE, value |-> 0, err |-> e]
Value(v) == [ok |-> TRUE, value |-> v, err |-> ""]

get_lp_ref_reserve(lp_reserves, ref_token) ==
    IF ~(ref_token < 2) THEN Fail("AssertionError: ref_token")
    ELSE IF Len(lp_reserves) # 3 THEN Fail("AssertionError: getReserves")
    ELSE IF ~InRange(lp_reserves, ref_token) THEN Fail("IndexError")
    ELSE Value(PyIndex(lp_reserves, ref_token))

\* What the chain answers to the state queries of one contract
PoolStates ==
    { p \in [lp_match : BOOLEAN, master_chef_lp : {0, 4}, total_supply_lp : {0, 8},
             lp_reserves : {<<3000, 5000, 7>>}, norm_factor : {1}] :
        (~p.lp_match \/ p.total_supply_lp = 0) => p.master_chef_lp = 4 }

\* (master_chef_balance_usd, master_chef_lp), or the exception raised
get_master_chef_balance(ci, pool) ==
    LET ref == get_lp_ref_reserve(pool.lp_reserves, ci.ref_token) IN
    IF ~pool.lp_match THEN Fail("AssertionError: lp address")
    ELSE IF ~ref.ok THEN ref
    ELSE IF pool.total_supply_lp = 0 \/ pool.norm_factor = 0
         THEN Fail("ZeroDivisionError")
    ELSE Value([usd |-> Rat(2 * ref.value * pool.master_chef_lp,
                            pool.total_supply_lp * pool.norm_factor),
                lp |-> pool.master_chef_lp])

millnames == <<"", " K", " M", " B", " T">>

RECURSIVE Pow1000(_)
Pow1000(k) == IF k = 0 THEN 1 ELSE 1000 * Pow1000(k - 1)

\* floor(log10(n) / 3) for n >= 1: how often the whole part w of n holds 1000
RECURSIVE Thousands(_)
Thousands(w) == IF w < 1000 THEN 0 ELSE 1 + Thousands(w \div 1000)

\* max(0, min(len(millnames)-1, floor(log10(n)/3))), 0 for n = 0 (and for n < 1,
\* where the logarithm is negative)
millidx(x) == Max(0, Min(Len(millnames) - 1, Thousands(x.num \div x.den)))

\* (a variant of RoundHalfEven that takes an exact half upwards)
RoundHalfUp(p, q) ==
    LET f == p \div q
        r == p % q
    IN  IF 2 * r < q THEN f ELSE f + 1

\* '{:.0f}'.format(p / q): the nearest integer, an exact half going to the even one
RoundHalfEven(p, q) ==
    LET f == p \div q
        r == p % q
    IN  IF 2 * r < q THEN f
        ELSE IF 2 * r > q THEN f + 1
        ELSE IF f % 2 = 0 THEN f ELSE f + 1

millify(x) ==
    LET k == millidx(x)
    IN  [digits |-> RoundHalfEven(x.num, x.den * Pow1000(k)),
         suffix |-> millnames[k + 1]]

\* millify(n) for the integer n = m * 1000^e, the form in which the arguments
\* beyond the integers of the checker are written: floor(log10(n) / 3) is
\* Thousands(m) + e, and n / 10**(3 * millidx) is m * 1000^(e - millidx)
millify_e(m, e) ==
    LET k == IF m = 0 THEN 0
             ELSE Max(0, Min(Len(millnames) - 1, Thousands(m) + e))
    IN  [digits |-> IF e >= k THEN RoundHalfEven(m * Pow1000(e - k), 1)
                    ELSE RoundHalfEven(m, Pow1000(k - e)),
         suffix |-> millnames[k + 1]]

\* (a variant of Staked that keeps the depositors that have withdrawn)
KeepAll(deposits, stake) == deposits

\* lines 200-208: one row per depositor whose staked amount is not 0, in the
\* insertion order of the record; ZeroDivisionError when master_chef_lp is 0
Staked(deposits, stake) == SelectSeq(deposits, LAMBDA d : stake[d.user] # 0)

Row(addr, amount, bal, code) ==
    [addr |-> addr,
     amount_pct |-> Rat(100 * amount, bal.lp),
     balance_usd |-> millify(Rat(bal.usd.num * amount, bal.usd.den * bal.lp)),
     is_contract |-> addr \in code]

users_info_of(deposits, stake, bal, code) ==
    LET kept == Staked(deposits, stake) IN
    IF kept # <<>> /\ bal.lp = 0 THEN Fail("ZeroDivisionError")
    ELSE Value([k \in 1..Len(kept) |->
                   Row(kept[k].user, stake[kept[k].user], bal, code)])

\* (a variant of InsertByKey that puts a row ahead of the rows of equal key)
InsertAheadOfTies(rows, r) ==
    LET ahead == { k \in 0..Len(rows) :
                     \A j \in 1..k : RatLess(r.amount_pct, rows[j].amount_pct) }
        at == CHOOSE k \in ahead : \A j \in ahead : j <= k
    IN  SubSeq(rows, 1, at) \o <<r>> \o SubSeq(rows, at + 1, Len(rows))

\* sorted(users_info, key=lambda x: x[1], reverse=True): a stable sort, so a row
\* goes behind every row whose key is not smaller than its own
InsertByKey(rows, r) ==
    LET ahead == { k \in 0..Len(rows) :
                     \A j \in 1..k : ~RatLess(rows[j].amount_pct, r.amount_pct) }
        at == CHOOSE k \in ahead : \A j \in ahead : j <= k
    IN  SubSeq(rows, 1, at) \o <<r>> \o SubSeq(rows, at + 1, Len(rows))

RECURSIVE SortedFrom(_, _)
SortedFrom(done, rest) ==
    IF rest = <<>> THEN done
    ELSE SortedFrom(InsertByKey(done, Head(rest)), Tail(rest))

Sorted(rows) == SortedFrom(<<>>, rows)

\* lines 190-214 as a whole: the rows handed to csv_writer, or the exception
PostOutcome(ci, deposits, pool, stake, code) ==
    LET bal == get_master_chef_balance(ci, pool) IN
    IF ~bal.ok THEN bal
    ELSE LET rows == users_info_of(deposits, stake, bal.value, code) IN
         IF ~rows.ok THEN rows ELSE Value(Sorted(rows.value))

StakeAmounts == 0..MaxStake
CodeSets == {{"b"}}     \* the addresses getCode returns code for

\* Every outcome of lines 190-214 over what the chain may answer, each with the
\* userInfo amounts that led to it
PostOutcomes(ci, deposits) ==
    { [res |-> PostOutcome(ci, deposits, pool, stake, code), stake |-> stake] :
        pool \in PoolStates, stake \in [Keys(deposits) -> StakeAmounts],
        code \in CodeSets }

\* lines 190-214: the report of the contract is written, the loop goes on (the
\* history of the scan ends with it)
Post ==
    /\ pc = "post"
    /\ \E out \in PostOutcomes(contract_info, all_deposits) :
        /\ out.res.ok
        /\ reports' = Append(reports, [idx |-> i, rows |-> out.res.value,
                                       deposits |-> all_deposits,
                                       stake |-> out.stake])
    /\ queried' = queried \cup {i}
    /\ i' = i + 1
    /\ pc' = "loop"
    /\ chunks' = <<>> /\ last' = NoRequest /\ nfail' = 0
    /\ UNCHANGED <<contracts_info, error, progVars, requested, pending, holders, W,
                   millVars>>

\* lines 190-208: a state query or the row arithmetic raises, main is left
PostFatal ==
    /\ pc = "post"
    /\ \E out \in PostOutcomes(contract_info, all_deposits) :
        /\ ~out.res.ok
        /\ error' = out.res.err
    /\ queried' = queried \cup {i}
    /\ pc' = "fatal"
    /\ chunks' = <<>> /\ last' = NoRequest /\ nfail' = 0
    /\ UNCHANGED <<contracts_info, i, progVars, requested, reports, pending, holders,
                   W, millVars>>

\* ------------------------------------------------------------ millify alone
NoText == [digits |-> -1, suffix |-> "none"]
NoCall == arg = [m |-> 0, e |-> 0] /\ formatted = NoText

\* 0 is written with e = 0
MillInputs == { a \in [m : 0..MaxMant, e : 0..MaxExp] : a.m = 0 => a.e = 0 }

\* lines 71-78: one call of millify with the integer arg.m * 1000^arg.e
Millify ==
    /\ formatted = NoText
    /\ formatted' = millify_e(arg.m, arg.e)
    /\ UNCHANGED <<contracts_info, i, pc, error, scanVars, requested, queried,
                   reports, pending, holders, W, arg>>

\* ------------------------------------------------------------ specification
InitCommon ==
    /\ i = 1
    /\ pc = "loop"
    /\ error = ""
    /\ to_block = 0 /\ from_block = 0 /\ first_block = 0 /\ chunk_size = 0
    /\ all_deposits = <<>>
    /\ chunks = <<>>
    /\ last = NoRequest
    /\ nfail = 0
    /\ requested = {}
    /\ queried = {}
    /\ reports = <<>>

\* Any request may raise; the scanned windows hold no Deposit entry
Init ==
    /\ InitCommon /\ contracts_info \in ContractLists /\ NoCall
    /\ W = 0 /\ pending = 0 /\ holders = {}

\* Any request may raise; the chain holds MaxEvents Deposit entries of two
\* addresses
InitLog ==
    /\ InitCommon /\ contracts_info \in LogLists /\ NoCall
    /\ W = 0 /\ pending = MaxEvents /\ holders = {"a", "b"}

\* Any request may raise; the chain holds MaxHolders Deposit entries of three
\* addresses
InitRank ==
    /\ InitCommon /\ contracts_info \in RankLists /\ NoCall
    /\ W = 0 /\ pending = MaxHolders /\ holders = Users

\* The provider raises exactly on the requests wider than W
InitW ==
    /\ InitCommon /\ contracts_info \in WidthLists /\ NoCall
    /\ W \in 1..MaxW /\ pending = 0 /\ holders = {}

Next ==
    \/ Return
    \/ Skip
    \/ StartScan
    \/ StartAssertFail
    \/ RequestOk
    \/ RequestFail
    \/ Post
    \/ PostFatal

Spec == Init /\ [][Next]_vars

SpecLog == InitLog /\ [][Next]_vars

SpecRank == InitRank /\ [][Next]_vars

SpecW == InitW /\ [][Next]_vars /\ WF_vars(Next)

\* millify is called once with one of the integers m * 1000^e, no contract is
\* processed
InitMillify ==
    /\ InitCommon /\ contracts_info = <<>>
    /\ W = 0 /\ pending = 0 /\ holders = {}
    /\ arg \in MillInputs /\ formatted = NoText

NextMillify == Millify

SpecMillify == InitMillify /\ [][NextMillify]_vars

\* ------------------------------------------------------------------ claims
Scanning == pc \in {"scan", "post"}
Covered(b) == \E k \in 1..Len(chunks) : chunks[k].from <= b /\ b <= chunks[k].to

\* C1: when the scan loop has terminated, the successful chunk requests cover
\* exactly the blocks first_block..end_block: every block of the window lies in
\* one of them and none of them leaves the window.
C1_WindowCovered ==
    pc = "post" =>
        /\ \A b \in first_block..end_block_of(contract_info) : Covered(b)
        /\ \A k \in 1..Len(chunks) :
            /\ first_block <= chunks[k].from
            /\ chunks[k].to <= end_block_of(contract_info)

\* C2: against the provider that raises exactly on the requests wider than W,
\* every scan that has started leaves its loop, and the request it leaves it on
\* was answered at a width of at most W.
C2_Converges ==
    (pc = "scan") ~> (pc = "post" /\ last.result = "ok" /\ last.to - last.from <= W)

\* C2 witness: a scan that had to shrink (its first request was wider than W)
\* has terminated after several raised and several answered requests.
C2_Witness ==
    /\ pc = "post"
    /\ W >= 1
    /\ chunk_size_of(contract_info) > W
    /\ nfail >= 2
    /\ Len(chunks) >= 2

\* The entries of the successful chunks, in the order they were processed
RECURSIVE Flat(_)
Flat(cs) == IF cs = <<>> THEN <<>> ELSE cs[1].entries \o Flat(Tail(cs))

FirstOf(u, entries) ==
    LET at == CHOOSE k \in 1..Len(entries) :
                /\ entries[k].user = u
                /\ \A j \in 1..(k - 1) : entries[j].user # u
    IN  entries[at].amount

\* C3: first-write-wins.  During a scan the record holds, for every address
\* some successful chunk has returned, the amount of the first entry of that
\* address in processing order (so the one of the chunk processed first), and
\* a step of the scan never changes an amount that is recorded.
C3_FirstWriteWins ==
    /\ [](Scanning =>
            /\ Keys(all_deposits) = { Flat(chunks)[k].user : k \in 1..Len(Flat(chunks)) }
            /\ \A k \in 1..Len(all_deposits) :
                all_deposits[k].amount = FirstOf(all_deposits[k].user, Flat(chunks)))
    /\ [][pc = "scan" =>
            \A k \in 1..Len(all_deposits) :
                /\ k <= Len(all_deposits')
                /\ all_deposits'[k] = all_deposits[k]]_vars

\* C3 witness: after a raised request, one address has come back in two
\* successful chunks with different amounts.
C3_Witness ==
    /\ Scanning
    /\ nfail >= 1
    /\ \E k1, k2 \in 1..Len(chunks) :
        /\ k1 < k2
        /\ \E e1 \in 1..Len(chunks[k1].entries), e2 \in 1..Len(chunks[k2].entries) :
            /\ chunks[k1].entries[e1].user = chunks[k2].entries[e2].user
            /\ chunks[k1].entries[e1].amount # chunks[k2].entries[e2].amount

\* C4: with n_blocks = 10000, chunk_size = 5000, end_block = 1,000,000 and no
\* raised request the scan ends after exactly two successful requests, the
\* first with upper bound 1,000,000 and the second reaching down to 990,000.
C4_TwoChunks ==
    (pc = "post" /\ contract_info = ScenarioConfig /\ nfail = 0) =>
        /\ Len(chunks) = 2
        /\ chunks[1].to = 1000000
        /\ chunks[2].from = 990000

\* C5: a request that raises while chunk_size is already 1 ends the scan in a
\* fatal error.
C5_WidthOneFatal ==
    (last.result = "fail" /\ last.cs = 1) => pc = "fatal"

\* C6: a request that raises anything but a provider-side failure ends the scan
\* in a fatal error instead of being retried.
C6_OtherErrorFatal ==
    (last.result = "fail" /\ last.err = "other") => pc = "fatal"

\* C7: for an entry whose configured n_blocks is 0 no log request is issued
\* and no address is recorded.
C7_EmptyWindow ==
    \A j \in 1..Len(contracts_info) :
        ("n_blocks" \in DOMAIN contracts_info[j] /\ contracts_info[j].n_blocks = 0) =>
            /\ j \notin requested
            /\ (i = j /\ Scanning) => all_deposits = <<>>

RowsOf(r, u) == { k \in 1..Len(r.rows) : r.rows[k].addr = u }

\* C8: in every report handed to csv_writer an address of the record whose
\* userInfo amount is 0 has no row, and an address of the record whose amount is
\* not 0 has exactly one; no other address has a row.
C8_ZeroStakeFiltered ==
    \A n \in 1..Len(reports) :
        LET r == reports[n] IN
        /\ \A u \in Keys(r.deposits) :
            Cardinality(RowsOf(r, u)) = IF r.stake[u] = 0 THEN 0 ELSE 1
        /\ \A k \in 1..Len(r.rows) : r.rows[k].addr \in Keys(r.deposits)

\* C8 witness: a report over a record with a withdrawn depositor and two
\* depositors that still stake.
C8_Witness ==
    \E n \in 1..Len(reports) :
        LET r == reports[n] IN
        /\ \E u \in Keys(r.deposits) : r.stake[u] = 0
        /\ Len(r.rows) = 2

PosIn(deposits, u) == CHOOSE k \in 1..Len(deposits) : deposits[k].user = u
SameShare(x, y) == ~RatLess(x, y) /\ ~RatLess(y, x)

\* C9: the rows of every report are in descending order of amount_pct, and
\* rows of equal amount_pct are in the order their addresses were inserted into
\* the record.
C9_RankedStable ==
    \A n \in 1..Len(reports) :
        LET r == reports[n] IN
        \A j, k \in 1..Len(r.rows) :
            j < k =>
                /\ ~RatLess(r.rows[j].amount_pct, r.rows[k].amount_pct)
                /\ SameShare(r.rows[j].amount_pct, r.rows[k].amount_pct) =>
                    PosIn(r.deposits, r.rows[j].addr) < PosIn(r.deposits, r.rows[k].addr)

\* C9 witness: three holders, the one with the larger share inserted between
\* two of equal share; it is ranked first and the two follow in insertion order.
C9_Witness ==
    \E n \in 1..Len(reports) :
        LET r == reports[n] IN
        /\ Len(r.rows) = 3
        /\ PosIn(r.deposits, r.rows[1].addr) = 2
        /\ RatLess(r.rows[2].amount_pct, r.rows[1].amount_pct)
        /\ SameShare(r.rows[2].amount_pct, r.rows[3].amount_pct)

\* C10: the step that handles a disabled entry moves to the next entry and
\* changes nothing else: no log request, no state query, no report, and the
\* variables the following entries start from are as they were.
C10_DisabledSkipped ==
    [][(pc = "loop" /\ i <= Len(contracts_info) /\ ~contract_info.enabled) =>
            /\ i' = i + 1
            /\ pc' = "loop"
            /\ UNCHANGED <<contracts_info, error, progVars, requested, queried,
                           reports, pending, holders>>]_vars

\* C10 witness: a disabled entry was passed over and the entry after it was
\* scanned and reported.
C10_Witness ==
    /\ Len(contracts_info) >= 2
    /\ ~contracts_info[1].enabled
    /\ requested = {2}
    /\ queried = {2}
    /\ Len(reports) = 1 /\ reports[1].idx = 2

WindowTooSmall(ci) == ci.enabled /\ n_blocks_of(ci) < chunk_size_of(ci)

\* C11: an enabled entry whose window is smaller than its chunk is a fatal
\* error: the run never gets past the entry, ends in the AssertionError once it
\* has handled it, and no log request, state query or report is made for it.
C11_SmallWindowFatal ==
    \A j \in 1..Len(contracts_info) :
        WindowTooSmall(contracts_info[j]) =>
            /\ i <= j
            /\ i = j => \/ pc = "loop"
                        \/ pc = "fatal" /\ error = "AssertionError: n_blocks"
            /\ j \notin requested
            /\ j \notin queried
            /\ \A n \in 1..Len(reports) : reports[n].idx # j

\* C11 witness: the run has ended in the AssertionError of an entry with an
\* explicit window smaller than its explicit chunk, nothing was requested.
C11_Witness ==
    /\ pc = "fatal"
    /\ error = "AssertionError: n_blocks"
    /\ WindowTooSmall(contract_info)
    /\ contract_info.n_blocks >= 1 /\ contract_info.chunk_size >= 2
    /\ requested = {}
    /\ reports = <<>>

\* C12: ref_token is 0 or 1; with any other integer get_lp_ref_reserve raises
\* and hands out no reserve, so no report is written for such an entry (the
\* dollar value of a report is computed from the reserve that was handed out).
C12_RefTokenZeroOrOne ==
    \A n \in 1..Len(reports) :
        contracts_info[reports[n].idx].ref_token \in {0, 1}

\* n = m * 1000^e holds at least k factors of 1000 (m is below 1000^3)
AtLeast(m, e, k) == m >= 1 /\ (e >= k \/ (k - e <= 2 /\ m >= Pow1000(k - e)))

\* the number of whole factors of 1000 in n = m * 1000^e, capped at 4
Scale(m, e) ==
    CHOOSE k \in 0..4 : /\ k = 0 \/ AtLeast(m, e, k)
                        /\ k = 4 \/ ~AtLeast(m, e, k + 1)

Dist(p, r, q) == IF p >= r * q THEN p - r * q ELSE r * q - p
\* r is the integer nearest to p / q, an exact half going upwards
NearestHalfUp(r, p, q) == 2 * Dist(p, r, q) <= q /\ (2 * Dist(p, r, q) = q => r * q > p)
\* r is the integer nearest to p / q, an exact half going to the even integer
NearestHalfEven(r, p, q) == 2 * Dist(p, r, q) <= q /\ (2 * Dist(p, r, q) = q => r % 2 = 0)

OkStep == pc = "scan" /\ Len(chunks') = Len(chunks) + 1
FailStep == pc = "scan" /\ chunks' = chunks /\ last'.result = "fail"

\* C14: after a successful request [from_block, to_block] the next request has
\* to_block' = from_block - 1 and from_block' = max(first_block, to_block' - C),
\* C the configured chunk size, whatever the width the successful request had.
C14_AdvanceByBase ==
    [][(OkStep /\ pc' = "scan") =>
          /\ to_block' = from_block - 1
          /\ from_block' = Max(first_block, to_block' - chunk_size_of(contract_info))]_vars

\* C15: a request that raised leaves to_block and the deposit record as they
\* were, sets the chunk width to max(width div 2, 1) and from_block to
\* to_block minus the new width; to_block changes only when a request is
\* answered, and it then strictly decreases.
C15_FailKeepsUpperBound ==
    [][pc = "scan" =>
          /\ FailStep => /\ to_block' = to_block
                         /\ all_deposits' = all_deposits
                         /\ chunk_size' = Max(chunk_size \div 2, 1)
                         /\ from_block' = to_block - chunk_size'
          /\ to_block' # to_block => OkStep /\ to_block' < to_block]_vars

\* C15 witness: after an answered request that recorded a depositor, a request
\* was raised at width 3 and is retried at width 1 with the same upper bound
C15_Witness ==
    /\ pc = "scan"
    /\ last.result = "fail" /\ last.cs = 3 /\ chunk_size = 1
    /\ last.to = to_block /\ from_block = to_block - 1
    /\ chunks # <<>>
    /\ all_deposits # <<>>

\* C16: the answered requests of a scan are pairwise disjoint and contiguous:
\* the upper bound of each is exactly one below the lower bound of the answered
\* request before it.
C16_ChunksContiguous ==
    /\ \A k \in 2..Len(chunks) : chunks[k].to = chunks[k - 1].from - 1
    /\ \A k \in 1..Len(chunks) : chunks[k].from <= chunks[k].to
    /\ \A j, k \in 1..Len(chunks) :
          j # k => \A b \in chunks[j].from..chunks[j].to :
                      ~(chunks[k].from <= b /\ b <= chunks[k].to)

\* C16 witness: three requests of a scan were answered, with raised requests
\* in between
C16_Witness ==
    /\ Len(chunks) >= 3
    /\ nfail >= 2
    /\ chunks[3].to - chunks[3].from # chunks[1].to - chunks[1].from

\* the addresses of the entries the answered requests of the current scan returned
Found ==
    UNION { { chunks[k].entries[n].user : n \in 1..Len(chunks[k].entries) } :
              k \in 1..Len(chunks) }

\* C17: the scan of every enabled contract starts from an empty record, and
\* the record of a contract holds only addresses found in the answered requests
\* of its own scan.
C17_RecordPerContract ==
    /\ (pc = "scan" /\ last = NoRequest) => all_deposits = <<>>
    /\ Scanning => Keys(all_deposits) \subseteq Found

\* C17 witness: the second contract of a list is being scanned, its record
\* holds an address of its own and not the one the first contract's report was
\* made from
C17_Witness ==
    /\ i = 2 /\ Scanning
    /\ Len(reports) = 1 /\ Keys(reports[1].deposits) = {"a"}
    /\ Keys(all_deposits) = {"b"}

\* C18: every request the scan issues stays inside the window:
\* first_block <= from_block <= to_block <= end_block.
C18_RequestInWindow ==
    last.result # "none" =>
        /\ first_block <= last.from
        /\ last.from <= last.to
        /\ last.to <= end_block_of(contract_info)

\* C19: a retry never widens the request: when [from_block, to_block] raised,
\* the next request [from_block', to_block] has from_block' >= from_block, and
\* from_block' > from_block whenever to_block - from_block > 1; also for the
\* first request after an answered one that followed earlier shrinking.
C19_RetryNeverWidens ==
    [][FailStep =>
          /\ to_block' = to_block
          /\ from_block' >= from_block
          /\ to_block - from_block > 1 => from_block' > from_block]_vars

====
